---- MODULE Spec2Model ----
\* Model of rush::ros::ParamMapper (src/include/rush/ros-parameter-manager.hpp):
\* a std::map<std::string, ParamValue> filled from the ROS parameter server,
\* with the std::set<std::string> ns_ of namespaces that drives reload().
\* Strings are sequences of one-character strings, so that back(), front(),
\* compare(), substr() and the ordering of std::map / std::set are computed
\* as the code computes them.
EXTENDS Integers, Sequences, FiniteSets, TLC

\* ---------------------------------------------------------------- bounds
\* parameter values are 1..MaxVal
MaxVal == 2
\* namespaces registered plus changes made to the parameter server
MaxEvents == 3

\* ------------------------------------------------------------- strings
\* operator< on char: the ASCII code of the characters used
Ord(c) ==
  CASE c = "/" -> 47
    [] c = "a" -> 97
    [] c = "b" -> 98
    [] c = "x" -> 120
    [] c = "y" -> 121

\* std::string operator<, the comparison of std::map and std::set
RECURSIVE StrLess(_, _)
StrLess(a, b) ==
  IF b = << >> THEN FALSE
  ELSE IF a = << >> THEN TRUE
  ELSE IF a[1] = b[1] THEN StrLess(Tail(a), Tail(b))
  ELSE Ord(a[1]) < Ord(b[1])

RECURSIVE SortSet(_)
\* the iteration order of a std::set<std::string> / of the keys of a std::map
SortSet(S) ==
  IF S = {} THEN << >>
  ELSE LET m == CHOOSE x \in S : \A y \in S : x = y \/ StrLess(x, y)
       IN  <<m>> \o SortSet(S \ {m})

Reverse(s) == [i \in 1..Len(s) |-> s[Len(s) + 1 - i]]

Range(s) == {s[i] : i \in 1..Len(s)}

\* ------------------------------------------------- the parameter server
\* fully qualified parameter names the server may hold
Names ==
  { <<"/", "b", "/", "x">>,
    <<"/", "a", "/", "x">>,
    <<"/", "a", "/", "b", "/", "x">>,
    <<"/", "a", "b", "/", "x">> }

\* values of ros::this_node::getNamespace()
Contexts == { <<"/">>, <<"/", "a">> }

\* arguments given to load()
NsArgs ==
  { << >>,
    <<"b">>,
    <<"/", "a">>,
    <<"/", "a", "/">> }

\* arguments given to operator[]
LookupKeys ==
  { <<"x">>, <<"y">> }

\* a default constructed XmlRpcValue (XmlRpcValue::TypeInvalid)
Invalid == 0

EmptyMap == [k \in {} |-> Invalid]

VARIABLES
  ctx,        \* ros::this_node::getNamespace() of the calling node
  params,     \* parameter server: name -> value, for the names it holds
  failing,    \* names for which ros::param::get returns false
  listing,    \* order in which getParamNames reports the names
  changes,    \* number of changes made to the parameter server
  store,      \* the std::map part of ParamMapper: key -> ParamValue
  ns_,        \* ParamMapper::ns_
  regOrder,   \* history: the arguments of load() in order of first registration
  order,      \* history: the keys of store in order of first insertion
  prev,       \* history: store before the last operation
  last,       \* the last operation, its arguments and its results
  streak,     \* how many times in a row the last operation was repeated (<= 2)
  rl,         \* a reload() running in a second thread: its position
  pv,         \* a ParamValue, the last conversion asked of it and its result
  cnt,        \* a Counter / RangeCounter, the last call and its result
  cs          \* a call of rush::string::countSubstr: its locals

vars == <<ctx, params, failing, listing, changes, store, ns_, regOrder,
          order, prev, last, streak, rl, pv, cnt, cs>>

\* the variables of ParamMapper and of the parameter server
mapperVars == <<ctx, params, failing, listing, changes, store, ns_, regOrder,
                order, prev, last, streak>>

\* no reload() runs in a second thread
NoReload == [pc |-> "idle", pending |-> << >>, before |-> << >>, missed |-> {}]

\* the components that take no part in a specification
Unused == [op |-> "unused"]

NoOp ==
  [op |-> "none", ns |-> << >>, key |-> << >>, err |-> "none", val |-> Invalid,
   keys |-> << >>, names |-> << >>, failed |-> {}]

\* ------------------------------------------------------ ParamMapper::load
\* lines 135-140: trailing '/' appended, relative names prefixed
Normalize(ns, c) ==
  LET n1 == IF ns = << >> \/ ns[Len(ns)] # "/" THEN Append(ns, "/") ELSE ns
  IN  IF n1[1] # "/" THEN c \o n1 ELSE n1

\* s.compare(0, ns.size(), ns) == 0
HasPrefix(s, ns) ==
  LET n == IF Len(ns) < Len(s) THEN Len(ns) ELSE Len(s)
  IN  SubSeq(s, 1, n) = ns

\* n.substr(ns.size() - 1): the separator stays in front of the key
StripKeepsSeparator(n, ns) == SubSeq(n, Len(ns), Len(n))

\* n.substr(ns.size())
Strip(n, ns) == SubSeq(n, Len(ns) + 1, Len(n))

\* the two orders in which the server may report its names
SortedNames == SortSet(Names)

ReverseSortedNames == Reverse(SortedNames)

\* ros::param::getParamNames: the names the server holds, in its order
GetParamNames(p, l) ==
  SelectSeq(IF l = "asc" THEN SortedNames ELSE ReverseSortedNames,
            LAMBDA n : n \in DOMAIN p)

\* names.erase(remove_if(...)): keeps the names that start with ns
FilterNames(names, ns) == SelectSeq(names, LAMBDA s : HasPrefix(s, ns))

\* ros::param::get(n, v): v is assigned only when the call succeeds
Get(n, v, p, f) == IF n \in f \/ n \notin DOMAIN p THEN v ELSE p[n]

\* emplace alone, which leaves the value of an existing key as it is
PutIfAbsent(m, key, v) ==
  [k \in DOMAIN m \cup {key} |-> IF k \in DOMAIN m THEN m[k] ELSE v]

\* lines 148-152: emplace for a new key, assignment for an existing one
Put(m, key, v) ==
  [k \in DOMAIN m \cup {key} |-> IF k = key THEN v ELSE m[k]]

RECURSIVE LoadLoop(_, _, _, _, _, _)
\* lines 145-153
LoadLoop(m, names, v, ns, p, f) ==
  IF names = << >> THEN m
  ELSE LET n  == Head(names)
           v2 == Get(n, v, p, f)
       IN  LoadLoop(Put(m, Strip(n, ns), v2), Tail(names), v2, ns, p, f)

\* ns_.insert(ns), line 131
Register(S, ns) == S \cup {ns}

\* the names a call load(nsArg) fetches, lines 135-143
LoadNames(nsArg, c, p, l) ==
  FilterNames(GetParamNames(p, l), Normalize(nsArg, c))

\* history: keys in order of first insertion, after the names nms were
\* inserted into the map m under the namespace ns
InsertionOrder(o, m, nms, ns) ==
  o \o SelectSeq([i \in 1..Len(nms) |-> Strip(nms[i], ns)],
                 LAMBDA k : k \notin DOMAIN m)

\* a load that starts from a cleared map
LoadCallReplacing(st, nsArg, c, p, f, l) ==
  LET ns  == Normalize(nsArg, c)
      nms == FilterNames(GetParamNames(p, l), ns)
  IN  [map   |-> LoadLoop(EmptyMap, nms, Invalid, ns, p, f),
       order |-> InsertionOrder(<< >>, EmptyMap, nms, ns)]

\* load(nsArg) on the map st.map: the map after the call, with the history
\* of insertions
LoadCall(st, nsArg, c, p, f, l) ==
  LET ns  == Normalize(nsArg, c)
      nms == FilterNames(GetParamNames(p, l), ns)
  IN  [map   |-> LoadLoop(st.map, nms, Invalid, ns, p, f),
       order |-> InsertionOrder(st.order, st.map, nms, ns)]

RECURSIVE LoadAll(_, _, _, _, _, _)
\* lines 161-163: load(ns) for each namespace of a sequence
LoadAll(st, nss, c, p, f, l) ==
  IF nss = << >> THEN st
  ELSE LoadAll(LoadCall(st, Head(nss), c, p, f, l), Tail(nss), c, p, f, l)

\* std::map::clear()
Clear(m) == EmptyMap

\* the order in which reload() walks ns_: that of std::set<std::string>
ReloadSequence(S) == SortSet(S)

\* a reload that takes the namespaces out of ns_ and does not put them back
ReloadNsConsumed(S) == {}

\* ns_ after reload(): every load(ns) of the loop inserts ns again
ReloadNs(S) == UNION {Register(S, n) : n \in S}

\* reload(): the map after the call, with the history of insertions
ReloadCall(m, S, c, p, f, l) ==
  LoadAll([map |-> Clear(m), order |-> << >>], ReloadSequence(S), c, p, f, l)

\* operator[] of std::map itself, which default-inserts a missing key
LookupStoreInserting(m, key) ==
  IF key \in DOMAIN m THEN m ELSE Put(m, key, Invalid)

\* operator[]: the map after the call (count() and the throw insert nothing,
\* std::map::operator[] is reached only for a key that is present)
LookupStore(m, key) == m

\* operator[]: throws std::runtime_error when count(key) < 1
LookupErr(m, key) == IF key \notin DOMAIN m THEN "KeyNotFound" ELSE "none"

\* the keys in descending order
GetKeysDescending(m) == Reverse(SortSet(DOMAIN m))

\* getKeys(): the keys in the iteration order of the std::map
GetKeys(m) == SortSet(DOMAIN m)

\* history: the number of consecutive calls of the same operation, up to 2
Bump(op) == IF last.op # op THEN 1 ELSE IF streak < 2 THEN streak + 1 ELSE 2

\* ----------------------------------------------------------------- Init
Init ==
  /\ ctx \in Contexts
  /\ params = [n \in Names |-> 1]
  /\ failing = {}
  /\ listing \in {"asc", "desc"}
  /\ changes = 0
  /\ store = EmptyMap
  /\ ns_ = {}
  /\ regOrder = << >>
  /\ order = << >>
  /\ prev = EmptyMap
  /\ last = NoOp
  /\ streak = 0
  /\ rl = NoReload
  /\ pv = Unused
  /\ cnt = Unused
  /\ cs = Unused

\* -------------------------------------------------------------- actions
Load(nsArg) ==
  LET nms == LoadNames(nsArg, ctx, params, listing)
      r   == LoadCall([map |-> store, order |-> order], nsArg, ctx, params,
                      failing, listing)
  IN  /\ Cardinality(Register(ns_, nsArg)) + changes <= MaxEvents
      /\ ns_' = Register(ns_, nsArg)
      /\ regOrder' = IF nsArg \in ns_ THEN regOrder ELSE Append(regOrder, nsArg)
      /\ store' = r.map
      /\ order' = r.order
      /\ prev' = store
      /\ last' = [NoOp EXCEPT !.op = "load", !.ns = nsArg, !.names = nms,
                    !.failed = Range(nms) \cap failing]
      /\ streak' = 1
      /\ UNCHANGED <<ctx, params, failing, listing, changes, rl, pv, cnt, cs>>

Reload ==
  LET r == ReloadCall(store, ns_, ctx, params, failing, listing)
  IN  /\ store' = r.map
      /\ order' = r.order
      /\ ns_' = ReloadNs(ns_)
      /\ prev' = store
      /\ last' = [NoOp EXCEPT !.op = "reload"]
      /\ streak' = Bump("reload")
      /\ UNCHANGED <<ctx, params, failing, listing, changes, regOrder, rl, pv,
                     cnt, cs>>

Lookup(key) ==
  /\ store' = LookupStore(store, key)
  /\ prev' = store
  /\ last' = [NoOp EXCEPT !.op = "lookup", !.key = key,
                !.err = LookupErr(store, key),
                !.val = IF LookupErr(store, key) = "none" THEN store[key]
                        ELSE Invalid]
  /\ streak' = 1
  /\ UNCHANGED <<ctx, params, failing, listing, changes, ns_, regOrder, order,
                 rl, pv, cnt, cs>>

CallGetKeys ==
  /\ last' = [NoOp EXCEPT !.op = "getKeys", !.keys = GetKeys(store)]
  /\ prev' = store
  /\ streak' = Bump("getKeys")
  /\ UNCHANGED <<ctx, params, failing, listing, changes, store, ns_, regOrder,
                 order, rl, pv, cnt, cs>>

SourceChanged ==
  /\ changes' = changes + 1
  /\ prev' = store
  /\ last' = [NoOp EXCEPT !.op = "source"]
  /\ streak' = 1
  /\ UNCHANGED <<ctx, listing, store, ns_, regOrder, order, rl, pv, cnt, cs>>

\* the value a parameter takes when it is set: one that differs from the
\* value it has
NextValue(p, n) == IF n \in DOMAIN p THEN (p[n] % MaxVal) + 1 ELSE 1

\* rosparam set
SetParam(n) ==
  /\ Cardinality(ns_) + changes < MaxEvents
  /\ params' = [k \in DOMAIN params \cup {n} |->
                  IF k = n THEN NextValue(params, n) ELSE params[k]]
  /\ failing' = failing
  /\ SourceChanged

\* rosparam delete
DeleteParam(n) ==
  /\ Cardinality(ns_) + changes < MaxEvents
  /\ n \in DOMAIN params
  /\ params' = [k \in DOMAIN params \ {n} |-> params[k]]
  /\ failing' = failing \ {n}
  /\ SourceChanged

\* the server stops answering get for n
BreakFetch(n) ==
  /\ Cardinality(ns_) + changes < MaxEvents
  /\ n \in DOMAIN params
  /\ failing = {}
  /\ failing' = failing \cup {n}
  /\ params' = params
  /\ SourceChanged

Next ==
  \/ \E nsArg \in NsArgs : Load(nsArg)
  \/ Reload
  \/ \E key \in LookupKeys : Lookup(key)
  \/ CallGetKeys
  \/ \E n \in Names : SetParam(n)
  \/ \E n \in Names : DeleteParam(n)
  \/ \E n \in Names : BreakFetch(n)

Spec == Init /\ [][Next]_vars

\* ---------------------------------------------------------------- claims
\* p is a prefix of s
IsPrefixOf(p, s) == Len(p) <= Len(s) /\ \A i \in 1..Len(p) : s[i] = p[i]

\* the names the server holds under the namespace ns
Under(ns) == {n \in DOMAIN params : IsPrefixOf(ns, n)}

\* the keys the server exposes under the namespace ns
Exposed(ns) == {k \in DOMAIN store \cup DOMAIN prev : ns \o k \in Under(ns)}

\* s with a trailing separator
WithSeparator(s) ==
  IF s # << >> /\ s[Len(s)] = "/" THEN s ELSE Append(s, "/")

\* the index of the first name of the last load whose fetch failed
FirstFailed ==
  CHOOSE i \in 1..Len(last.names) :
    /\ last.names[i] \in last.failed
    /\ \A j \in 1..(i - 1) : last.names[j] \notin last.failed

\* the key of the i-th name of the last load
KeyAt(i) == Strip(last.names[i], Normalize(last.ns, ctx))

\* C1: reload() is equivalent to clearing the map and calling load(ns) for
\* the registered namespaces in the order of their first registration, so
\* that for a key two namespaces expose the namespace registered later wins.
C1_ReloadInRegistrationOrder ==
  last.op = "reload"
    => store = LoadAll([map |-> EmptyMap, order |-> << >>], regOrder, ctx,
                       params, failing, listing).map

\* C2: a failed fetch during load(ns) is reported as SourceUnavailable and
\* aborts the rest of the call: the failing name and the names after it are
\* not stored, the keys of the names before it are.
C2_FailedFetchAborts ==
  (last.op = "load" /\ last.failed # {})
    => /\ last.err = "SourceUnavailable"
       /\ \A j \in 1..Len(last.names) :
            IF j < FirstFailed
            THEN /\ KeyAt(j) \in DOMAIN store
                 /\ store[KeyAt(j)] = params[last.names[j]]
            ELSE IF KeyAt(j) \in DOMAIN prev
                 THEN store[KeyAt(j)] = prev[KeyAt(j)]
                 ELSE KeyAt(j) \notin DOMAIN store

\* C3: after a load(ns) in which no fetch failed, every name the server
\* lists under the normalized namespace has its key, the name without that
\* prefix, in the map with the server's current value of the name.
C3_LoadStoresEveryName ==
  (last.op = "load" /\ last.failed = {})
    => \A n \in Under(Normalize(last.ns, ctx)) :
         \E k \in DOMAIN store :
           /\ n = Normalize(last.ns, ctx) \o k
           /\ store[k] = params[n]

\* a load without a failed fetch that found two names or more, on a server
\* that was changed
C3_Witness ==
  /\ last.op = "load"
  /\ last.failed = {}
  /\ Len(last.names) >= 2
  /\ changes > 0

\* C4: operator[] on a key that is not in the map fails with KeyNotFound
\* (std::runtime_error) and leaves the key set and all values of the map as
\* they were, whatever state the map is in.
C4_LookupAbsentFails ==
  (last.op = "lookup" /\ last.key \notin DOMAIN prev)
    => (last.err = "KeyNotFound" /\ store = prev)

\* a failed lookup on a map that holds other keys
C4_Witness ==
  /\ last.op = "lookup"
  /\ last.key \notin DOMAIN prev
  /\ prev # EmptyMap
  /\ last.err = "KeyNotFound"

\* C5 as stated: getKeys() enumerates the keys in the order in which they
\* were inserted, that is the order in which the server reported the names.
C5_KeysInInsertionOrder ==
  last.op = "getKeys" => last.keys = order

\* C5 as amended: getKeys() enumerates every key of the map once, in
\* ascending order of the key strings, whatever the order of insertion, and
\* two consecutive calls return the same sequence.
C5_KeysAscendingAndStable ==
  /\ [](last.op = "getKeys"
          => /\ Range(last.keys) = DOMAIN store
             /\ \A i, j \in 1..Len(last.keys) :
                  i < j => StrLess(last.keys[i], last.keys[j]))
  /\ [][(last.op = "getKeys" /\ last'.op = "getKeys")
          => last'.keys = last.keys]_vars

\* a second consecutive getKeys() on a map whose keys were not inserted in
\* ascending order
C5_Witness ==
  /\ last.op = "getKeys"
  /\ streak = 2
  /\ Len(last.keys) >= 2
  /\ last.keys # order

\* C6: load(ns) with a namespace that does not start with the separator
\* resolves it relative to the context path of the caller, so exactly the
\* names below <context>/<ns>/ are loaded.
C6_RelativeNamespaceResolved ==
  (last.op = "load" /\ last.ns # << >> /\ last.ns[1] # "/")
    => Range(last.names) = Under(WithSeparator(ctx) \o WithSeparator(last.ns))

\* C7: load("") loads the namespace of the caller's own context: only the
\* names below the context path are loaded.
C7_EmptyNamespaceIsContext ==
  (last.op = "load" /\ last.ns = << >>)
    => Range(last.names) = Under(WithSeparator(ctx))

\* C8: load(ns) on a populated map only adds and overwrites: when no fetch
\* fails every key the server reports under ns holds the server's current
\* value afterwards, and in every case the keys that were in the map stay,
\* those the server does not report under ns keep their value, and a key
\* that is new is one the server reports under ns.
C8_LoadAdditive ==
  last.op = "load"
    => LET ns == Normalize(last.ns, ctx)
       IN  /\ last.failed = {}
                => \A n \in Under(ns) :
                     \E k \in DOMAIN store :
                       n = ns \o k /\ store[k] = params[n]
           /\ \A k \in DOMAIN prev :
                /\ k \in DOMAIN store
                /\ k \notin Exposed(ns) => store[k] = prev[k]
           /\ \A k \in DOMAIN store \ DOMAIN prev : k \in Exposed(ns)

\* a second load of a namespace that replaced the value of one key and kept
\* a key the server no longer reports
C8_Witness ==
  /\ last.op = "load"
  /\ last.failed = {}
  /\ \E k \in DOMAIN prev : k \in Exposed(Normalize(last.ns, ctx))
                              /\ store[k] # prev[k]
  /\ \E k \in DOMAIN prev : k \notin Exposed(Normalize(last.ns, ctx))
                              /\ k \in DOMAIN store

\* C9: after load(A) and then load(B) without a failed fetch, a lookup of a
\* key that was in the map and that B exposes returns the value the server
\* holds for the key under B.
C9_LaterLoadWins ==
  [][(/\ last.op = "load"
      /\ last.failed = {}
      /\ last'.op = "lookup"
      /\ last'.key \in DOMAIN prev
      /\ last'.key \in Exposed(Normalize(last.ns, ctx)))
       => /\ last'.err = "none"
          /\ last'.val = params[Normalize(last.ns, ctx) \o last'.key]]_vars

\* the load of a second namespace that exposes a key of the first one with
\* another value
C9_Witness ==
  /\ last.op = "load"
  /\ last.failed = {}
  /\ Len(regOrder) = 2
  /\ last.ns = regOrder[2]
  /\ \E k \in DOMAIN prev : k \in Exposed(Normalize(last.ns, ctx))
                              /\ store[k] # prev[k]

\* C10: a second reload() that follows a reload() with no change of the
\* server in between leaves the key set and every value as the first reload
\* left them.
C10_ReloadIdempotent ==
  (last.op = "reload" /\ streak = 2) => store = prev

\* a second consecutive reload of two namespaces with a collision
C10_Witness ==
  /\ last.op = "reload"
  /\ streak = 2
  /\ Cardinality(ns_) = 2
  /\ store # EmptyMap
  /\ \E k \in DOMAIN store :
       \A n \in ns_ : k \in Exposed(Normalize(n, ctx))

\* C17: load(ns) registers the normalized form of ns, so that ns_ holds one
\* entry for each distinct normalized namespace that was loaded (and reload()
\* pulls each of them once).
C17_OneEntryPerNamespace ==
  Cardinality(ns_) = Cardinality({Normalize(n, ctx) : n \in Range(regOrder)})

\* ------------------------------------------- two threads on one ParamMapper
\* One thread calls load() and reload(), a second one calls operator[].
\* reload() is its calls on the map: clear(), then one load(ns) for each
\* namespace; the second thread runs between any two of them.

\* a lookup that waits for a running reload(), as under a mutex
CanLookupLocked(r) == r.pc # "loading"

\* operator[] and reload() take no lock (lines 118-123, 159-164): a lookup
\* can run whatever the position of the other thread is
CanLookup(r) == TRUE

\* the results a lookup can have: the read of the map races with the writes
\* of a running reload(), which is undefined behaviour
LookupOutcomes(m, key, r) ==
  IF r.pc = "loading" THEN {LookupErr(m, key), "undefined"}
  ELSE {LookupErr(m, key)}

\* the state of the second thread's bookkeeping when reload() starts
ReloadRunning(S, m) ==
  [pc |-> "loading", pending |-> ReloadSequence(S), before |-> m,
   missed |-> {}]

\* the first thread calls load(ns)
ConcLoad(nsArg) ==
  /\ rl.pc # "loading"
  /\ Load(nsArg)

\* reload(), line 160: the map is cleared
ReloadClear ==
  /\ rl.pc # "loading"
  /\ ns_ # {}
  /\ store' = Clear(store)
  /\ order' = << >>
  /\ prev' = store
  /\ last' = [NoOp EXCEPT !.op = "reload"]
  /\ streak' = 1
  /\ rl' = ReloadRunning(ns_, store)
  /\ UNCHANGED <<ctx, params, failing, listing, changes, ns_, regOrder, pv,
                 cnt, cs>>

\* reload(), lines 161-163: load(ns) for the next namespace
ReloadLoad ==
  /\ rl.pc = "loading"
  /\ rl.pending # << >>
  /\ LET r == LoadCall([map |-> store, order |-> order], Head(rl.pending),
                       ctx, params, failing, listing)
     IN  /\ store' = r.map
         /\ order' = r.order
  /\ ns_' = Register(ns_, Head(rl.pending))
  /\ rl' = [rl EXCEPT !.pending = Tail(rl.pending)]
  /\ UNCHANGED <<ctx, params, failing, listing, changes, regOrder, prev, last,
                 streak, pv, cnt, cs>>

\* reload() returns
ReloadReturn ==
  /\ rl.pc = "loading"
  /\ rl.pending = << >>
  /\ rl' = [rl EXCEPT !.pc = "done"]
  /\ UNCHANGED <<mapperVars, pv, cnt, cs>>

\* the second thread calls operator[]
ConcLookup(key) ==
  /\ CanLookup(rl)
  /\ \E e \in LookupOutcomes(store, key, rl) :
       /\ last' = [NoOp EXCEPT !.op = "lookup", !.key = key, !.err = e,
                     !.val = IF e = "none" THEN store[key] ELSE Invalid]
       /\ rl' = IF rl.pc = "loading" /\ e = "KeyNotFound"
                   /\ key \in DOMAIN rl.before
                THEN [rl EXCEPT !.missed = rl.missed \cup {key}]
                ELSE rl
  /\ store' = LookupStore(store, key)
  /\ prev' = store
  /\ streak' = 1
  /\ UNCHANGED <<ctx, params, failing, listing, changes, ns_, regOrder, order,
                 pv, cnt, cs>>

NextConc ==
  \/ \E nsArg \in NsArgs : ConcLoad(nsArg)
  \/ ReloadClear
  \/ ReloadLoad
  \/ ReloadReturn
  \/ \E key \in LookupKeys : ConcLookup(key)

SpecConc == Init /\ [][NextConc]_vars

\* C13: the map has no synchronization. While a reload() of the other thread
\* is between its clear() and the load that brings a key back, a lookup of
\* that key is not held back and fails with KeyNotFound, although the key was
\* in the map when the reload started; and every key whose lookup failed in
\* this way is in the map again when the reload has returned.
C13_LookupSeesClearedMap ==
  /\ \A k \in LookupKeys :
       (rl.pc = "loading" /\ k \in DOMAIN rl.before /\ k \notin DOMAIN store)
         => ENABLED (ConcLookup(k) /\ last'.err = "KeyNotFound")
  /\ rl.pc = "done"
       => \A k \in rl.missed : k \in DOMAIN rl.before /\ k \in DOMAIN store

\* a reload has returned during which a lookup failed for a key that was in
\* the map before the reload and is in it after
C13_Witness ==
  /\ rl.pc = "done"
  /\ \E k \in rl.missed : k \in DOMAIN rl.before /\ k \in DOMAIN store

\* ======================================================================
\* ParamValue: a wrapper of one XmlRpcValue (ros-parameter-manager.hpp:28-90)
\* ======================================================================
MaxLen == 2

\* The error the XmlRpcValue accessors raise on a value of the wrong type.
TypeMismatch == "XmlRpcException"

ScalarTypes == {"bool", "int", "double", "string"}

Scalar(t, n, s) == [type |-> t, num |-> n, str |-> s]

Top(s, elems) == [type |-> s.type, num |-> s.num, str |-> s.str, elems |-> elems]

ScalarOf(v) == Scalar(v.type, v.num, v.str)

InvalidValue == Scalar("invalid", 0, << >>)

Scalars ==
  {InvalidValue}
    \cup {Scalar("bool", b, << >>) : b \in 0..1}
    \cup {Scalar("int", n, << >>) : n \in 0..MaxVal}
    \cup {Scalar("double", n, << >>) : n \in 0..MaxVal}
    \cup {Scalar("string", 0, s) : s \in {<< >>, <<"a">>}}

SeqsUpTo(S, n) == UNION {[1..k -> S] : k \in 0..n}

\* The values a ParamValue can wrap: a scalar, an array of scalars, or a
\* struct (its members kept in elems, their names left out).
Values ==
  {Top(s, << >>) : s \in Scalars}
    \cup {Top(Scalar("array", 0, << >>), e) : e \in SeqsUpTo(Scalars, MaxLen)}
    \cup {Top(Scalar("struct", 0, << >>), e) : e \in SeqsUpTo(Scalars, 1)}

\* T{}: the value an invalid XmlRpcValue takes when it is read as a T.
Default(T) == Scalar(T, 0, << >>)

\* A vector<T> the caller may hand to as_vec: empty, or holding one element.
Sample(T) == IF T = "string" THEN Scalar(T, 0, <<"a">>) ELSE Scalar(T, 1, << >>)

Priors(T) == {<< >>, <<Sample(T)>>}

\* static_cast<T>(value_): XmlRpcValue::operator T&() accepts a value of type
\* T, turns an invalid value into T{} (changing the stored value), and raises
\* on every other type.
Convert(s, T) ==
  IF s.type = "invalid"
    THEN [err |-> "none", ret |-> Default(T), value |-> Default(T)]
  ELSE IF s.type = T
    THEN [err |-> "none", ret |-> s, value |-> s]
  ELSE [err |-> TypeMismatch, ret |-> InvalidValue, value |-> s]

\* value_.size(): defined for strings, arrays and structs only.
HasSize(v) == v.type \in {"string", "array", "struct"}

Size(v) == IF v.type = "string" THEN Len(v.str) ELSE Len(v.elems)

\* The while loop of as_vec from index i on, over an array's elements.
RECURSIVE AsVecLoop(_, _, _, _)
AsVecLoop(elems, i, T, x) ==
  IF i > Len(elems) THEN [err |-> "none", x |-> x, elems |-> elems]
  ELSE LET c == Convert(elems[i], T)
       IN IF c.err # "none" THEN [err |-> c.err, x |-> x, elems |-> elems]
          ELSE AsVecLoop([elems EXCEPT ![i] = c.value], i + 1, T, Append(x, c.ret))

\* as_vec(x): x is cleared, then one element is pushed per index below size().
AsVecCall(v, T, x0) ==
  LET x == << >>
  IN IF ~HasSize(v) THEN [err |-> TypeMismatch, x |-> x, value |-> v]
     ELSE IF Size(v) = 0 THEN [err |-> "none", x |-> x, value |-> v]
     ELSE IF v.type # "array" THEN [err |-> TypeMismatch, x |-> x, value |-> v]
     ELSE LET r == AsVecLoop(v.elems, 1, T, x)
          IN [err |-> r.err, x |-> r.x, value |-> [v EXCEPT !.elems = r.elems]]

NewValue(v) ==
  [op |-> "new", T |-> "bool", arg |-> v, x0 |-> << >>, value |-> v,
   err |-> "none", ret |-> InvalidValue, x |-> << >>]

InitValue ==
  /\ ctx = <<"/">>
  /\ params = [n \in Names |-> 1]
  /\ failing = {}
  /\ listing = "asc"
  /\ changes = 0
  /\ store = EmptyMap
  /\ ns_ = {}
  /\ regOrder = << >>
  /\ order = << >>
  /\ prev = EmptyMap
  /\ last = NoOp
  /\ streak = 0
  /\ rl = NoReload
  /\ pv \in {NewValue(v) : v \in Values}
  /\ cnt = Unused
  /\ cs = Unused

As(T) ==
  LET c == Convert(ScalarOf(pv.value), T)
  IN /\ pv' = [op |-> "as", T |-> T, arg |-> pv.value, x0 |-> << >>,
               value |-> Top(c.value, pv.value.elems),
               err |-> c.err, ret |-> c.ret, x |-> << >>]
     /\ UNCHANGED <<mapperVars, rl, cnt, cs>>

AsVec(T) ==
  \E x0 \in Priors(T) :
    LET r == AsVecCall(pv.value, T, x0)
    IN /\ pv' = [op |-> "as_vec", T |-> T, arg |-> pv.value, x0 |-> x0,
                 value |-> r.value, err |-> r.err, ret |-> InvalidValue,
                 x |-> r.x]
       /\ UNCHANGED <<mapperVars, rl, cnt, cs>>

NextParamValue ==
  \/ \E T \in ScalarTypes : As(T)
  \/ \E T \in ScalarTypes : AsVec(T)

SpecValue == InitValue /\ [][NextParamValue]_vars

\* The widenings the description of as<T>() names.
Widens(from, T) ==
  \/ from = "bool" /\ T = "int"
  \/ from = "int" /\ T = "double"

Convertible(s, T) == s.type = T \/ Widens(s.type, T)

\* C11: as<T>() succeeds exactly when the stored variant is T or a widening
\* (boolean to integer, integer to double) applies, then returning the stored
\* number as a T, and fails with the type error in every other case.
C11_AsSucceedsIffConvertible ==
  pv.op = "as" =>
    /\ (pv.err = "none") <=> Convertible(pv.arg, pv.T)
    /\ pv.err # "none" => pv.err = TypeMismatch
    /\ pv.err = "none" => pv.ret = Scalar(pv.T, pv.arg.num, pv.arg.str)

\* C12: asList<T>() fails with the type error whenever the stored value is
\* not a list (an empty string and an empty struct included) or some element
\* is not convertible to T; when it succeeds the container holds exactly the
\* converted elements in list order, whatever it held before.
C12_AsListFailsUnlessList ==
  pv.op = "as_vec" =>
    /\ (\/ pv.arg.type # "array"
        \/ \E i \in 1..Len(pv.arg.elems) : ~Convertible(pv.arg.elems[i], pv.T))
          => pv.err = TypeMismatch
    /\ pv.err = "none" =>
         pv.x = [i \in 1..Len(pv.arg.elems) |->
                   Scalar(pv.T, pv.arg.elems[i].num, pv.arg.elems[i].str)]

\* ======================================================================
\* Counter and RangeCounter (counter.hpp)
\* ======================================================================
\* T is an unsigned integer of Width bits; its arithmetic is modulo 2^Width.
Width == 3

Modulus == 2 ^ Width

MaxStep == 3

TValues == 0..(Modulus - 1)

Steps == 1..MaxStep

\* the int arguments given to += and -=
Ns == -1..2

\* Counter(init, step); setCalled records that set() or reset() was used on
\* the object.
NewCounter(init, step) ==
  [cls |-> "Counter", init_ |-> init, step_ |-> step, counter_ |-> init,
   offset_ |-> 0, reset_ |-> 0, op |-> "new", n |-> 0, before |-> init,
   ret |-> 0, setCalled |-> FALSE]

\* RangeCounter(init, reset, step): Counter(0, step), offset_{init},
\* reset_{reset - init}
NewRangeCounter(init, reset, step) ==
  [cls |-> "RangeCounter", init_ |-> 0, step_ |-> step, counter_ |-> 0,
   offset_ |-> init, reset_ |-> (reset - init) % Modulus, op |-> "new",
   n |-> 0, before |-> 0, ret |-> 0, setCalled |-> FALSE]

\* What an operator returns for the value v of the underlying counter:
\* RangeCounter maps it to v % reset_ + offset_, Counter returns it as it is.
Returned(c, v) ==
  IF c.cls = "RangeCounter" THEN ((v % c.reset_) + c.offset_) % Modulus ELSE v

Plus(v, d) == (v + d) % Modulus

Minus(v, d) == (v - d) % Modulus

\* std::exchange(counter_, to): counter_ becomes to, the old value is returned.
Exchange(c, op, n, to) ==
  [c EXCEPT !.op = op, !.n = n, !.before = c.counter_, !.counter_ = to,
            !.ret = Returned(c, c.counter_)]

\* counter_ += d, counter_ -= d: the new value is returned.
Assign(c, op, to) ==
  [c EXCEPT !.op = op, !.n = 0, !.before = c.counter_, !.counter_ = to,
            !.ret = Returned(c, to)]

InitCounter ==
  /\ ctx = <<"/">>
  /\ params = [n \in Names |-> 1]
  /\ failing = {}
  /\ listing = "asc"
  /\ changes = 0
  /\ store = EmptyMap
  /\ ns_ = {}
  /\ regOrder = << >>
  /\ order = << >>
  /\ prev = EmptyMap
  /\ last = NoOp
  /\ streak = 0
  /\ rl = NoReload
  /\ pv = Unused
  /\ cnt \in {NewCounter(i, s) : i \in TValues, s \in Steps}
               \cup {NewRangeCounter(i, r, s) :
                       i \in TValues, r \in TValues, s \in Steps}
  /\ cnt.cls = "RangeCounter" => cnt.reset_ # 0 /\ cnt.offset_ + cnt.reset_ < Modulus
  /\ cs = Unused

CounterUnchanged == UNCHANGED <<mapperVars, rl, pv, cs>>

\* operator()()
Call ==
  /\ cnt' = Exchange(cnt, "call", 0, Plus(cnt.counter_, cnt.step_))
  /\ CounterUnchanged

\* operator++()
PreIncrement ==
  /\ cnt' = Assign(cnt, "preinc", Plus(cnt.counter_, cnt.step_))
  /\ CounterUnchanged

\* operator++(int)
PostIncrement ==
  /\ cnt' = Exchange(cnt, "postinc", 0, Plus(cnt.counter_, cnt.step_))
  /\ CounterUnchanged

\* operator+=(n)
AddAssign(n) ==
  /\ cnt' = Exchange(cnt, "add", n, Plus(cnt.counter_, n * cnt.step_))
  /\ CounterUnchanged

\* operator--(), deleted in RangeCounter
PreDecrement ==
  /\ cnt.cls = "Counter"
  /\ cnt' = Assign(cnt, "predec", Minus(cnt.counter_, cnt.step_))
  /\ CounterUnchanged

\* operator--(int), deleted in RangeCounter
PostDecrement ==
  /\ cnt.cls = "Counter"
  /\ cnt' = Exchange(cnt, "postdec", 0, Minus(cnt.counter_, cnt.step_))
  /\ CounterUnchanged

\* operator-=(n), deleted in RangeCounter
SubAssign(n) ==
  /\ cnt.cls = "Counter"
  /\ cnt' = Exchange(cnt, "sub", n, Minus(cnt.counter_, n * cnt.step_))
  /\ CounterUnchanged

\* set(value)
Set(value) ==
  /\ cnt' = [cnt EXCEPT !.op = "set", !.n = 0, !.before = cnt.counter_,
                        !.counter_ = value, !.ret = 0, !.setCalled = TRUE]
  /\ CounterUnchanged

\* reset()
Reset ==
  /\ cnt' = [cnt EXCEPT !.op = "reset", !.n = 0, !.before = cnt.counter_,
                        !.counter_ = cnt.init_, !.ret = 0,
                        !.setCalled = TRUE]
  /\ CounterUnchanged

NextCounter ==
  \/ Call
  \/ PreIncrement
  \/ PostIncrement
  \/ \E n \in Ns : AddAssign(n)
  \/ PreDecrement
  \/ PostDecrement
  \/ \E n \in Ns : SubAssign(n)
  \/ \E value \in TValues : Set(value)
  \/ Reset

SpecCounter == InitCounter /\ [][NextCounter]_vars

\* C14: Counter::operator+=(n) advances the counter by n*step and returns the
\* value after incrementing; operator-=(n) moves it back by n*step and
\* returns the value after decrementing.
C14_CompoundAssignReturnsNewValue ==
  /\ (cnt.cls = "Counter" /\ cnt.op = "add") =>
       /\ cnt.counter_ = Plus(cnt.before, cnt.n * cnt.step_)
       /\ cnt.ret = cnt.counter_
  /\ (cnt.cls = "Counter" /\ cnt.op = "sub") =>
       /\ cnt.counter_ = Minus(cnt.before, cnt.n * cnt.step_)
       /\ cnt.ret = cnt.counter_

\* the value a RangeCounter shows for the underlying counter v
Current(c, v) == (v % c.reset_) + c.offset_

\* C15: after any sequence of operator(), ++ and += calls, every value a
\* RangeCounter returns lies in [init, reset), and a step from a value that
\* reaches reset (value + step = reset) restarts the counter from init,
\* overflow of the underlying counter included.
C15_RangeCounterInRangeAndRestarts ==
  (cnt.cls = "RangeCounter" /\ ~cnt.setCalled) =>
    /\ cnt.op \in {"call", "preinc", "postinc", "add"} =>
         /\ cnt.offset_ <= cnt.ret
         /\ cnt.ret < cnt.offset_ + cnt.reset_
    /\ (/\ cnt.op \in {"call", "preinc", "postinc"}
        /\ Current(cnt, cnt.before) + cnt.step_ = cnt.offset_ + cnt.reset_)
         => Current(cnt, cnt.counter_) = cnt.offset_

\* ======================================================================
\* rush::string::countSubstr (string.hpp:122-130)
\* ======================================================================
\* std::size_t has SizeBits bits; std::string::npos is its largest value.
SizeBits == 4

SizeModulus == 2 ^ SizeBits

npos == SizeModulus - 1

\* int has IntBits bits.
IntBits == 4

IntMax == 2 ^ (IntBits - 1) - 1

IntMin == -(2 ^ (IntBits - 1))

Alphabet == {"a", "b"}

\* the strings countSubstr is called on, and the substrings it is given
Strings == SeqsUpTo(Alphabet, MaxLen + 1)

Substrings == SeqsUpTo(Alphabet, MaxLen)

\* substr occurs in s at the 0-based position i
OccursAt(s, substr, i) ==
  /\ i + Len(substr) <= Len(s)
  /\ \A k \in 1..Len(substr) : s[i + k] = substr[k]

\* std::string::find(substr, pos): the first position >= pos where substr
\* occurs, npos when there is none.
Find(s, substr, pos) ==
  LET found == {i \in pos..Len(s) : OccursAt(s, substr, i)}
  IN IF found = {} THEN npos
     ELSE CHOOSE i \in found : \A j \in found : i <= j

\* ++count: signed overflow is undefined, any int may result.
Incremented(count) == IF count < IntMax THEN {count + 1} ELSE IntMin..IntMax

Idle(s) ==
  [pc |-> "idle", str |-> s, substr |-> << >>, n |-> 0, count |-> 0,
   index |-> 0]

InitCount ==
  /\ ctx = <<"/">>
  /\ params = [n \in Names |-> 1]
  /\ failing = {}
  /\ listing = "asc"
  /\ changes = 0
  /\ store = EmptyMap
  /\ ns_ = {}
  /\ regOrder = << >>
  /\ order = << >>
  /\ prev = EmptyMap
  /\ last = NoOp
  /\ streak = 0
  /\ rl = NoReload
  /\ pv = Unused
  /\ cnt = Unused
  /\ cs \in {Idle(s) : s \in Strings}

CountUnchanged == UNCHANGED <<mapperVars, rl, pv, cnt>>

\* countSubstr(substr) is entered: n, count and index are initialised.
CountSubstr(substr) ==
  /\ cs.pc = "idle"
  /\ cs' = [cs EXCEPT !.pc = "loop", !.substr = substr, !.n = Len(substr),
                      !.count = 0, !.index = (0 - Len(substr)) % SizeModulus]
  /\ CountUnchanged

\* The loop condition finds an occurrence: the body counts it.
LoopFound ==
  /\ cs.pc = "loop"
  /\ LET i == Find(cs.str, cs.substr, (cs.index + cs.n) % SizeModulus)
     IN /\ i # npos
        /\ \E c \in Incremented(cs.count) :
             cs' = [cs EXCEPT !.index = i, !.count = c]
  /\ CountUnchanged

\* The loop condition finds nothing: count is returned.
LoopExit ==
  /\ cs.pc = "loop"
  /\ Find(cs.str, cs.substr, (cs.index + cs.n) % SizeModulus) = npos
  /\ cs' = [cs EXCEPT !.pc = "done", !.index = npos]
  /\ CountUnchanged

NextCount ==
  \/ \E substr \in Substrings : CountSubstr(substr)
  \/ LoopFound
  \/ LoopExit

SpecCount == InitCount /\ [][NextCount]_vars

\* A call that was entered keeps running: the loop is not suspended forever.
SpecCountFair == SpecCount /\ WF_vars(LoopFound) /\ WF_vars(LoopExit)

\* the number of non-overlapping occurrences of substr in s from position pos
RECURSIVE Occurrences(_, _, _)
Occurrences(s, substr, pos) ==
  LET i == Find(s, substr, pos)
  IN IF i = npos \/ substr = << >> THEN 0
     ELSE 1 + Occurrences(s, substr, i + Len(substr))

\* C16: countSubstr(substr) terminates for every string and every substr,
\* the empty one included, and returns the number of non-overlapping
\* occurrences of substr in the string.
C16_CountSubstrTerminates ==
  /\ (cs.pc = "loop") ~> (cs.pc = "done")
  /\ [](cs.pc = "done" => cs.count = Occurrences(cs.str, cs.substr, 0))

====
